---- MODULE Spec2Model ----
(***************************************************************************)
(* A model of the polish package (prefix-notation expression evaluator):   *)
(* the Context with its function registry, constant table, parse order     *)
(* and term queue, the registration calls, and Eval/subEval as a           *)
(* step-by-step machine over an explicit call stack.                       *)
(*                                                                         *)
(* Strings are sequences of one-character strings, so that splitting and   *)
(* literal parsing are computed and not assumed.                           *)
(***************************************************************************)
EXTENDS Integers, Sequences, FiniteSets, TLC

VARIABLES
  funcs,        \* c.funcs: name -> [f, num]
  vals,         \* c.vals: name -> Value
  parse_order,  \* c.parse_order
  terms,        \* c.terms
  stack,        \* the call stack of the running Eval, innermost frame last
  ret,          \* what the last Eval returned to the host
  lastCall,     \* the last call of a registered callable whose body ran
  lastOp,       \* the call the host made last and what it returned
  lastSet,      \* per name, the value of the last SetValue that returned nil
  pops,         \* the terms the subEval calls of the host's Eval have taken
  two,          \* two Contexts of one program, with the maps they point to
  found         \* the host's Eval call found terms in c.terms, where it is kept

vars ==
  <<funcs, vals, parse_order, terms, stack, ret, lastCall, lastOp, lastSet, pops, two,
    found>>

(***************************************************************************)
(* Bounds of the model.                                                    *)
(***************************************************************************)
\* Longest expression, in terms, among the enumerated expressions.
MaxTerms == 3

(***************************************************************************)
(* Characters, tokens and expressions.                                     *)
(***************************************************************************)
Space == " "

\* The names the host registers functions and constants under.
Names == { <<"f">>, <<"g">> }

\* The literal of the enumerated expressions.
LitToks == { <<"5">> }

Toks == Names \cup LitToks

RECURSIVE Join(_)
\* The terms of ts separated by single spaces.
Join(ts) ==
  IF ts = <<>> THEN <<>>
  ELSE IF Len(ts) = 1 THEN ts[1]
  ELSE ts[1] \o <<Space>> \o Join(Tail(ts))

RECURSIVE TokSeqs(_)
\* All sequences of at most n tokens.
TokSeqs(n) ==
  IF n = 0 THEN { <<>> }
  ELSE LET S == TokSeqs(n - 1)
       IN  S \cup { Append(s, t) : s \in { x \in S : Len(x) = n - 1 }, t \in Toks }

\* Expressions of the package's tests, over the names of this model:
\* "f g 1 2 -3" has the shape of "f1 rev3 1 2 3", "f 1.0 2.0" is the one of
\* ErrorSpec, "  f   1  2 " the one of ParsingSpec, "f f g 1 2" nests as
\* MultiValueReturnSpec does, "f a 1" has a term that is no number, and "  "
\* has no term at all.  "1.5" and "a" are a float and a text alone, and
\* "f<TAB>5" has a tab where "f 5" has a space.
TestExprs ==
  { <<"f", " ", "g", " ", "1", " ", "2", " ", "-", "3">>,
    <<"f", " ", "1", ".", "0", " ", "2", ".", "0">>,
    <<" ", " ", "f", " ", " ", " ", "1", " ", " ", "2", " ">>,
    <<"f", " ", "f", " ", "g", " ", "1", " ", "2">>,
    <<"f", " ", "a", " ", "1">>,
    <<" ", " ">>,
    <<"1", ".", "5">>,
    <<"a">>,
    <<"f", "\t", "5">> }

Exprs == { Join(ts) : ts \in TokSeqs(MaxTerms) } \cup TestExprs

(***************************************************************************)
(* Values (reflect.Value): a kind and a datum.  A float is held in         *)
(* hundredths, exact for the literals of this model.                       *)
(***************************************************************************)
IntV(n) == [kind |-> "int", v |-> n]
FloatV(h) == [kind |-> "float", v |-> h]
StringV(s) == [kind |-> "string", v |-> s]
\* reflect.Value{}, the zero Value.
ZeroValue == [kind |-> "invalid", v |-> 0]

IsDigit(c) == c \in {"0", "1", "2", "3", "4", "5", "6", "7", "8", "9"}

DigitVal(c) ==
  CASE c = "0" -> 0 [] c = "1" -> 1 [] c = "2" -> 2 [] c = "3" -> 3
    [] c = "4" -> 4 [] c = "5" -> 5 [] c = "6" -> 6 [] c = "7" -> 7
    [] c = "8" -> 8 [] c = "9" -> 9

RECURSIVE DigitsVal(_)
\* The base-10 value of a sequence of digits.
DigitsVal(ds) ==
  IF ds = <<>> THEN 0
  ELSE 10 * DigitsVal(SubSeq(ds, 1, Len(ds) - 1)) + DigitVal(ds[Len(ds)])

HasSign(s) == s # <<>> /\ s[1] \in {"+", "-"}
Unsigned(s) == IF HasSign(s) THEN Tail(s) ELSE s
SignOf(s) == IF s # <<>> /\ s[1] = "-" THEN -1 ELSE 1

\* strconv.Atoi succeeds: an optional sign and one or more digits.
AtoiOk(s) ==
  LET u == Unsigned(s)
  IN  u # <<>> /\ \A i \in 1..Len(u) : IsDigit(u[i])

Atoi(s) == SignOf(s) * DigitsVal(Unsigned(s))

DotsOf(u) == { i \in 1..Len(u) : u[i] = "." }

\* strconv.ParseFloat succeeds, for strings over digits, sign, dot and the
\* letters of this model: an optional sign, digits with at most one dot, and
\* at least one digit.
ParseFloatOk(s) ==
  LET u == Unsigned(s)
  IN  /\ Cardinality(DotsOf(u)) <= 1
      /\ \A i \in 1..Len(u) : IsDigit(u[i]) \/ u[i] = "."
      /\ \E i \in 1..Len(u) : IsDigit(u[i])

Pow10(k) == CASE k = 0 -> 1 [] k = 1 -> 10 [] k = 2 -> 100

\* The parsed float, in hundredths.
ParseFloat(s) ==
  LET u == Unsigned(s)
      d == IF DotsOf(u) = {} THEN Len(u) + 1 ELSE CHOOSE i \in DotsOf(u) : TRUE
      ip == SubSeq(u, 1, d - 1)
      fp == SubSeq(u, d + 1, Len(u))
  IN  SignOf(s) * (DigitsVal(ip) * Pow10(2) + DigitsVal(fp) * Pow10(2 - Len(fp)))

(***************************************************************************)
(* The tokenizer of Eval: strings.Split(expression, " ") and the loop that *)
(* keeps the fragments of non-zero length.                                 *)
(***************************************************************************)
RECURSIVE Split(_, _)
\* strings.Split(s, sep) for a one-character separator: the fragments
\* between the separators, empty ones included.
Split(s, sep) ==
  IF \A i \in 1..Len(s) : s[i] # sep THEN << s >>
  ELSE LET i == CHOOSE j \in 1..Len(s) :
                   s[j] = sep /\ \A k \in 1..(j - 1) : s[k] # sep
       IN  << SubSeq(s, 1, i - 1) >> \o Split(SubSeq(s, i + 1, Len(s)), sep)

\* A loop that keeps the empty fragments.
MutDropEmpty(raw) == raw

RECURSIVE DropEmpty(_)
DropEmpty(raw) ==
  IF raw = <<>> THEN <<>>
  ELSE IF Len(raw[1]) > 0 THEN << raw[1] >> \o DropEmpty(Tail(raw))
  ELSE DropEmpty(Tail(raw))

Tokenize(expression) == DropEmpty(Split(expression, Space))

(***************************************************************************)
(* Callables the host registers.  reflect.Value.Call checks the arguments  *)
(* against the parameter types and then runs the body.                     *)
(***************************************************************************)
CallableIds ==
  {"add", "addf", "abs", "rev3", "makeZero", "makeTwo", "panic", "panicNil", "reeval"}

\* The parameter kinds of each callable, from its signature.
InKinds(id) ==
  CASE id = "add" -> <<"int", "int">>
    [] id = "addf" -> <<"float", "float">>
    [] id = "abs" -> <<"int">>
    [] id = "rev3" -> <<"int", "int", "int">>
    [] id \in {"makeZero", "makeTwo", "panic", "panicNil", "reeval"} -> <<>>

\* reflect.TypeOf(f).NumIn()
NumIn(id) == Len(InKinds(id))

\* The number of results in each callable's signature.
NumOut(id) ==
  CASE id \in {"add", "addf", "abs", "reeval"} -> 1
    [] id = "rev3" -> 3
    [] id = "makeTwo" -> 2
    [] id \in {"makeZero", "panic", "panicNil"} -> 0

\* The values a panic carries.
PanicString(msg) == [kind |-> "string", msg |-> msg]
PanicError(msg) == [kind |-> "error", msg |-> msg]
PanicNil == [kind |-> "nil", msg |-> ""]

NoPanic == [kind |-> "none", msg |-> ""]

\* What running the body of a callable does with arguments of the right
\* kinds: the values it returns, or the value it panics with.
Body(id, a) ==
  CASE id = "add" -> [pv |-> NoPanic, out |-> << IntV(a[1].v + a[2].v) >>]
    [] id = "addf" -> [pv |-> NoPanic, out |-> << FloatV(a[1].v + a[2].v) >>]
    [] id = "abs" ->
         [pv |-> NoPanic, out |-> << IntV(IF a[1].v < 0 THEN -a[1].v ELSE a[1].v) >>]
    [] id = "rev3" -> [pv |-> NoPanic, out |-> << a[3], a[2], a[1] >>]
    [] id = "makeZero" -> [pv |-> NoPanic, out |-> <<>>]
    [] id = "makeTwo" -> [pv |-> NoPanic, out |-> << IntV(1), IntV(2) >>]
    [] id = "panic" -> [pv |-> PanicString("rawr"), out |-> <<>>]
    [] id = "panicNil" -> [pv |-> PanicNil, out |-> <<>>]

\* The expression the callable "reeval" evaluates on the Context it is
\* registered in; it returns the number of values it got, or -1 on error.
InnerExpr == << "2", " ", "3" >>

IsNumber(v) == v.kind \in {"int", "float"}

\* A check that lets any number pass for any numeric parameter.
MutArgsAssignable(id, a) ==
  /\ Len(a) = NumIn(id)
  /\ \A i \in 1..Len(a) : IsNumber(a[i])

\* The arguments can be passed to the callable's parameters.
ArgsAssignable(id, a) ==
  /\ Len(a) = NumIn(id)
  /\ \A i \in 1..Len(a) : a[i].kind = InKinds(id)[i]

(***************************************************************************)
(* Errors and panics inside Eval.                                          *)
(***************************************************************************)
\* The nil error.
NoErr == [kind |-> "nil", text |-> <<>>, cause |-> ""]

\* &Error{"Unable to parse term: '<term>'"}
ParseErr(term) == [kind |-> "Unable to parse term", text |-> term, cause |-> ""]

\* &Error{"Unknown polish.Value: <v>"}
UnknownTypeErr == [kind |-> "Unknown polish.Value", text |-> <<>>, cause |-> ""]

\* The Error built by the deferred function of Eval from a recovered value:
\* "Failed to evaluate (<expression>): <r>."
EvalErr(expression, r) ==
  [kind |-> "Failed to evaluate", text |-> expression, cause |-> r.msg]

\* c.terms[0] on an empty slice: a runtime.Error.
IndexPanic == PanicError("index out of range")

\* reflect.Value.Call on an argument that is not assignable to the
\* parameter: panics with a string.
ReflectPanic == PanicString("reflect: Call using wrong type")

\* What recover() returns for a panic value: the value itself; for panic(nil)
\* it is nil or a *runtime.PanicNilError, depending on the Go version the
\* package is built with.
Recovered(pv) ==
  IF pv.kind = "nil" THEN { PanicNil, PanicError("panic called with nil argument") }
  ELSE { pv }

(***************************************************************************)
(* The parse loop of subEval over c.parse_order.                           *)
(***************************************************************************)
Integer == 0
Float == 1
String == 2

\* One iteration of the switch: the Value the kind t gives to the term, the
\* zero Value when the parse fails.
ParseAs(t, term) ==
  CASE t = Integer -> IF AtoiOk(term) THEN IntV(Atoi(term)) ELSE ZeroValue
    [] t = Float -> IF ParseFloatOk(term) THEN FloatV(ParseFloat(term)) ELSE ZeroValue
    [] t = String -> StringV(term)

\* A loop without the break: the last kind that gives a Value wins.
MutParseLoop(order, term) ==
  LET hits == { i \in 1..Len(order) : ParseAs(order[i], term) # ZeroValue }
  IN  IF hits = {} THEN [val |-> ZeroValue, err |-> NoErr]
      ELSE [val |-> ParseAs(order[CHOOSE i \in hits : \A j \in hits : j <= i], term),
            err |-> NoErr]

RECURSIVE ParseLoop(_, _)
\* The for loop: the first kind of the order that gives a Value ends it; a
\* kind that is none of the three returns the unknown-kind error.
ParseLoop(order, term) ==
  IF order = <<>> THEN [val |-> ZeroValue, err |-> NoErr]
  ELSE IF Head(order) \notin {Integer, Float, String}
       THEN [val |-> ZeroValue, err |-> UnknownTypeErr]
  ELSE LET val == ParseAs(Head(order), term)
       IN  IF val # ZeroValue THEN [val |-> val, err |-> NoErr]
           ELSE ParseLoop(Tail(order), term)

\* The literal branch of subEval: (vs, err).
ParseTerm(order, term) ==
  LET r == ParseLoop(order, term)
  IN  IF r.err # NoErr THEN [vs |-> <<>>, err |-> r.err]
      ELSE IF r.val = ZeroValue THEN [vs |-> <<>>, err |-> ParseErr(term)]
      ELSE [vs |-> << r.val >>, err |-> NoErr]

(***************************************************************************)
(* How subEval resolves a term.                                            *)
(***************************************************************************)
\* A resolution that takes a term for a literal whenever it is an integer.
MutResolution(fs, vs, term) ==
  IF AtoiOk(term) THEN "literal"
  ELSE IF term \in DOMAIN fs THEN "function"
  ELSE IF term \in DOMAIN vs THEN "constant"
  ELSE "literal"

\* The branch subEval takes for a term: c.funcs is looked up first, then
\* c.vals, and the parse loop is reached when the term is in neither.
Resolution(fs, vs, term) ==
  IF term \in DOMAIN fs THEN "function"
  ELSE IF term \in DOMAIN vs THEN "constant"
  ELSE "literal"

(***************************************************************************)
(* The call stack.  A frame is an Eval call, a subEval call on a function  *)
(* term (in its argument loop or in f.f.Call), or the body of the          *)
(* callable "reeval" waiting for the Eval it called.  results is the list  *)
(* of the result lists the frame's nested subEval calls returned, kept for *)
(* stating properties.                                                     *)
(***************************************************************************)
EvalFrame(expression) ==
  [kind |-> "Eval", expr |-> expression, term |-> <<>>, fn |-> "", num |-> 0,
   args |-> <<>>, results |-> <<>>]

SubEvalFrame(term, f) ==
  [kind |-> "subEval", expr |-> <<>>, term |-> term, fn |-> f.f, num |-> f.num,
   args |-> <<>>, results |-> <<>>]

BodyFrame(id) ==
  [kind |-> "body", expr |-> <<>>, term |-> <<>>, fn |-> id, num |-> 0,
   args |-> <<>>, results |-> <<>>]

Top(s) == s[Len(s)]
Pop(s) == SubSeq(s, 1, Len(s) - 1)

NoRet == [done |-> FALSE, expr |-> <<>>, vs |-> <<>>, err |-> NoErr]
NoCall == [fn |-> "", pending |-> <<>>, results |-> <<>>, given |-> <<>>,
           pv |-> NoPanic, out |-> <<>>, vs |-> <<>>]

\* The loop condition with <= for <: one nested call too many.
MutNeedsArg(fr) == Len(fr.args) <= fr.num

\* The loop condition of subEval: for len(args) < f.num
NeedsArg(fr) == Len(fr.args) < fr.num

\* remaining = args[f.num:] when len(args) > f.num
Remaining(fr) ==
  IF Len(fr.args) > fr.num THEN SubSeq(fr.args, fr.num + 1, Len(fr.args)) ELSE <<>>

\* args = args[0:f.num] when len(args) > f.num
Given(fr) ==
  IF Len(fr.args) > fr.num THEN SubSeq(fr.args, 1, fr.num) ELSE fr.args

\* The result without the values set aside.
MutCallResult(out, remaining) == out

\* vs = f.f.Call(args), then each remaining value appended.
CallResult(out, remaining) == out \o remaining

\* The record of a call whose body ran: what it was given, and what it
\* returned (with what the subEval returned then) or the value it panicked
\* with.
CallRecord(fr, pv, out) ==
  [fn |-> fr.fn, pending |-> fr.args, results |-> fr.results, given |-> Given(fr),
   pv |-> pv, out |-> out,
   vs |-> IF pv = NoPanic THEN CallResult(out, Remaining(fr)) ELSE <<>>]

\* What the callable "reeval" returns from the outcome of its Eval.
ReevalOut(vs, err) == IF err = NoErr THEN << IntV(Len(vs)) >> ELSE << IntV(-1) >>

RECURSIVE ReturnSub(_, _, _, _)
RECURSIVE ReturnEval(_, _, _, _, _)
\* A loop that goes on after a nested subEval has returned an error.
MutReturnSub(s, vs, err, call) ==
  LET fr == Top(s)
  IN  IF fr.kind = "Eval" THEN ReturnEval(Pop(s), vs, err, call, fr.expr)
      ELSE [stack |-> Append(Pop(s), [fr EXCEPT !.args = fr.args \o vs,
                                                 !.results = Append(fr.results, vs)]),
            ret |-> NoRet, call |-> call]

\* A subEval call returns (vs, err) to its caller, the frame on top of s: a
\* subEval in its loop returns at once on an error and appends the results
\* otherwise; Eval returns what it got.
ReturnSub(s, vs, err, call) ==
  LET fr == Top(s)
  IN  IF fr.kind = "Eval" THEN ReturnEval(Pop(s), vs, err, call, fr.expr)
      ELSE IF err # NoErr THEN ReturnSub(Pop(s), <<>>, err, call)
      ELSE [stack |-> Append(Pop(s), [fr EXCEPT !.args = fr.args \o vs,
                                                 !.results = Append(fr.results, vs)]),
            ret |-> NoRet, call |-> call]

\* An Eval that fails when it returns to the host with more than one term
\* left in the queue.
MutReturnEval(s, vs, err, call, expression) ==
  IF s = <<>>
  THEN [stack |-> s,
        ret |-> IF Len(terms) > 1
                THEN [done |-> TRUE, expr |-> expression, vs |-> <<>>,
                      err |-> ParseErr(terms[Len(terms)])]
                ELSE [done |-> TRUE, expr |-> expression, vs |-> vs, err |-> err],
        call |-> call]
  ELSE LET fr == Top(Pop(s))
           out == ReevalOut(vs, err)
       IN  ReturnSub(Pop(Pop(s)), CallResult(out, Remaining(fr)), NoErr,
                     CallRecord(fr, NoPanic, out))

\* Eval(expression) returns (vs, err) to its caller: the host when s is
\* empty, else the body of "reeval", which returns to the subEval that
\* called it.
ReturnEval(s, vs, err, call, expression) ==
  IF s = <<>>
  THEN [stack |-> s, ret |-> [done |-> TRUE, expr |-> expression, vs |-> vs, err |-> err],
        call |-> call]
  ELSE LET fr == Top(Pop(s))
           out == ReevalOut(vs, err)
       IN  ReturnSub(Pop(Pop(s)), CallResult(out, Remaining(fr)), NoErr,
                     CallRecord(fr, NoPanic, out))

\* The innermost Eval frame of s.
EvalIndex(s) == CHOOSE i \in 1..Len(s) :
                  s[i].kind = "Eval" /\ \A j \in (i + 1)..Len(s) : s[j].kind # "Eval"

\* A deferred function that recovers and leaves err as it is.
MutUnwindNoErr(s, r, call) ==
  LET i == EvalIndex(s)
  IN  ReturnEval(SubSeq(s, 1, i - 1), <<>>, NoErr, call, s[i].expr)

\* A deferred function that hands out the arguments gathered so far.
MutUnwindPartial(s, r, call) ==
  LET i == EvalIndex(s)
  IN  ReturnEval(SubSeq(s, 1, i - 1), Top(s).args,
                 IF r # PanicNil THEN EvalErr(s[i].expr, r) ELSE NoErr,
                 call, s[i].expr)

\* A panic unwinds to the deferred function of the innermost Eval, which
\* sets err when recover() gives a non-nil value r; vs is still nil.
Unwind(s, r, call) ==
  LET i == EvalIndex(s)
  IN  ReturnEval(SubSeq(s, 1, i - 1), <<>>,
                 IF r # PanicNil THEN EvalErr(s[i].expr, r) ELSE NoErr,
                 call, s[i].expr)

(***************************************************************************)
(* Registration: AddFunc, SetValue, SetParseOrder.                         *)
(***************************************************************************)
FuncV(id) == [kind |-> "func", v |-> id]
\* The nil interface value.
NilIface == [kind |-> "nil", v |-> 0]

\* The values the host passes to AddFunc and to SetValue.
AddFuncArgs ==
  { FuncV(id) : id \in CallableIds } \cup { IntV(7), StringV(<<"s">>), NilIface }
SetValueArgs == { IntV(3), IntV(4) }
ParseOrders ==
  { <<Integer, Float, String>>, <<Integer, Float>>, <<String, Integer>>, <<>> }

NotFuncErr(f) ==
  [kind |-> "Tried to add a non-function", text |-> <<>>, cause |-> f.kind]
TwiceErr(name) ==
  [kind |-> "Tried to add the function more than once", text |-> name, cause |-> ""]
CollisionErr(name) ==
  [kind |-> "Tried to give the name to a function and a value", text |-> name,
   cause |-> ""]

NoOp == [op |-> "", name |-> <<>>, arg |-> NilIface, err |-> NoErr, panicked |-> FALSE]
OpRecord(op, name, arg, err, panicked) ==
  [op |-> op, name |-> name, arg |-> arg, err |-> err, panicked |-> panicked]

\* A binding that keeps the value of a key already bound.
MutBind(m, k, v) == [x \in DOMAIN m \cup {k} |-> IF x \in DOMAIN m THEN m[x] ELSE v]

\* m with key k bound to v.
Bind(m, k, v) == [x \in DOMAIN m \cup {k} |-> IF x = k THEN v ELSE m[x]]

\* reflect.TypeOf(nil) is the nil Type, and typ.Kind() on it dereferences a
\* nil pointer: the panic leaves AddFunc, which has no recover.
AddFuncPanics(f) == f = NilIface

\* AddFunc without the check against the constant table.
MutAddFuncErrNoVals(fs, vs, name, f) ==
  IF f.kind # "func" THEN NotFuncErr(f)
  ELSE IF name \in DOMAIN fs THEN TwiceErr(name)
  ELSE NoErr

\* AddFunc without the check against the function registry.
MutAddFuncErrNoFuncs(fs, vs, name, f) ==
  IF f.kind # "func" THEN NotFuncErr(f)
  ELSE IF name \in DOMAIN vs THEN CollisionErr(name)
  ELSE NoErr

\* The error AddFunc returns, by its three checks in order.
AddFuncErr(fs, vs, name, f) ==
  IF f.kind # "func" THEN NotFuncErr(f)
  ELSE IF name \in DOMAIN fs THEN TwiceErr(name)
  ELSE IF name \in DOMAIN vs THEN CollisionErr(name)
  ELSE NoErr

\* SetValue without its check.
MutSetValueErr(fs, name) == NoErr

\* The error SetValue returns.
SetValueErr(fs, name) ==
  IF name \in DOMAIN fs THEN CollisionErr(name) ELSE NoErr

\* No second Context is looked at.
NoContexts == [heap |-> <<>>, ctxs |-> <<>>, last |-> NoOp]

\* No call is running and the host has taken the result of the last one.
Idle == stack = <<>> /\ lastOp = NoOp

AddFunc(name, f) ==
  /\ Idle
  /\ IF AddFuncPanics(f)
     THEN /\ lastOp' = OpRecord("AddFunc", name, f, NoErr, TRUE)
          /\ UNCHANGED funcs
     ELSE LET err == AddFuncErr(funcs, vals, name, f)
          IN  /\ lastOp' = OpRecord("AddFunc", name, f, err, FALSE)
              /\ funcs' = IF err = NoErr
                          THEN Bind(funcs, name, [f |-> f.v, num |-> NumIn(f.v)])
                          ELSE funcs
  /\ ret' = NoRet
  /\ lastCall' = NoCall
  /\ UNCHANGED <<vals, parse_order, terms, stack, lastSet, pops, two, found>>

SetValue(name, v) ==
  /\ Idle
  /\ LET err == SetValueErr(funcs, name)
     IN  /\ lastOp' = OpRecord("SetValue", name, v, err, FALSE)
         /\ vals' = IF err = NoErr THEN Bind(vals, name, v) ELSE vals
         /\ lastSet' = IF err = NoErr THEN [lastSet EXCEPT ![name] = v] ELSE lastSet
  /\ ret' = NoRet
  /\ lastCall' = NoCall
  /\ UNCHANGED <<funcs, parse_order, terms, stack, pops, two, found>>

SetParseOrder(types) ==
  /\ Idle
  /\ parse_order' = types
  /\ lastOp' = OpRecord("SetParseOrder", <<>>, NilIface, NoErr, FALSE)
  /\ ret' = NoRet
  /\ lastCall' = NoCall
  /\ UNCHANGED <<funcs, vals, terms, stack, lastSet, pops, two, found>>

(***************************************************************************)
(* Eval and subEval, one step at a time.                                   *)
(***************************************************************************)
\* An Eval that appends the fragments to the queue as it finds it.
MutEvalBegin(expression) ==
  /\ Idle
  /\ terms' = terms \o Tokenize(expression)
  /\ stack' = << EvalFrame(expression) >>
  /\ ret' = NoRet
  /\ lastCall' = NoCall
  /\ lastOp' = OpRecord("Eval", expression, NilIface, NoErr, FALSE)
  /\ pops' = 0
  /\ UNCHANGED <<funcs, vals, parse_order, lastSet, two>>

\* The host calls Eval: the deferred function is set, the expression is
\* split and c.terms replaced by its non-empty fragments.
EvalBegin(expression) ==
  /\ Idle
  /\ terms' = Tokenize(expression)
  /\ stack' = << EvalFrame(expression) >>
  /\ ret' = NoRet
  /\ lastCall' = NoCall
  /\ lastOp' = OpRecord("Eval", expression, NilIface, NoErr, FALSE)
  /\ pops' = 0
  /\ UNCHANGED <<funcs, vals, parse_order, lastSet, two>>

EvalStart(expression) == EvalBegin(expression) /\ UNCHANGED found

\* The same call, keeping whether it found terms of an earlier Eval in the
\* queue, for stating properties.
EvalAfter(expression) == EvalBegin(expression) /\ found' = (terms # <<>>)

\* The next state of stack, ret and lastCall from a return record.
Returns(r) ==
  /\ stack' = r.stack
  /\ ret' = r.ret
  /\ lastCall' = r.call

\* A call of subEval, by Eval or by the loop of a subEval that still needs
\* arguments: it takes the first term off c.terms (a panic when there is
\* none) and resolves it as a function, a constant or a literal.
SubEval ==
  /\ stack # <<>>
  /\ Top(stack).kind = "Eval" \/ (Top(stack).kind = "subEval" /\ NeedsArg(Top(stack)))
  /\ IF terms = <<>>
     THEN /\ \E r \in Recovered(IndexPanic) : Returns(Unwind(stack, r, lastCall))
          /\ UNCHANGED terms
     ELSE LET term == terms[1]
              how == Resolution(funcs, vals, term)
          IN  /\ terms' = Tail(terms)
              /\ IF how = "function"
                 THEN /\ stack' = Append(stack, SubEvalFrame(term, funcs[term]))
                      /\ UNCHANGED <<ret, lastCall>>
                 ELSE IF how = "constant"
                 THEN Returns(ReturnSub(stack, << vals[term] >>, NoErr, lastCall))
                 ELSE LET p == ParseTerm(parse_order, term)
                      IN  Returns(ReturnSub(stack, p.vs, p.err, lastCall))
  /\ pops' = IF terms # <<>> /\ EvalIndex(stack) = 1 THEN pops + 1 ELSE pops
  /\ UNCHANGED <<funcs, vals, parse_order, lastOp, lastSet, two, found>>

\* A subEval whose loop has ended calls the function: the surplus is set
\* aside, f.f.Call panics on arguments of the wrong kind, and else the body
\* runs; "reeval" calls Eval on this Context.
Call ==
  /\ stack # <<>>
  /\ Top(stack).kind = "subEval"
  /\ ~NeedsArg(Top(stack))
  /\ LET fr == Top(stack)
     IN  IF ~ArgsAssignable(fr.fn, Given(fr))
         THEN /\ \E r \in Recovered(ReflectPanic) : Returns(Unwind(stack, r, lastCall))
              /\ UNCHANGED terms
         ELSE IF fr.fn = "reeval"
         THEN /\ terms' = Tokenize(InnerExpr)
              /\ stack' = stack \o << BodyFrame(fr.fn), EvalFrame(InnerExpr) >>
              /\ UNCHANGED <<ret, lastCall>>
         ELSE LET b == Body(fr.fn, Given(fr))
              IN  /\ IF b.pv # NoPanic
                     THEN \E r \in Recovered(b.pv) :
                            Returns(Unwind(stack, r, CallRecord(fr, b.pv, <<>>)))
                     ELSE Returns(ReturnSub(Pop(stack), CallResult(b.out, Remaining(fr)),
                                            NoErr, CallRecord(fr, NoPanic, b.out)))
                  /\ UNCHANGED terms
  /\ UNCHANGED <<funcs, vals, parse_order, lastOp, lastSet, pops, two, found>>

\* The call of the host has returned: the host takes its result.
Return ==
  /\ stack = <<>>
  /\ lastOp # NoOp
  /\ lastOp.op = "Eval" => ret.done
  /\ lastOp' = NoOp
  /\ ret' = NoRet
  /\ lastCall' = NoCall
  /\ pops' = 0
  /\ UNCHANGED <<funcs, vals, parse_order, terms, stack, lastSet, two, found>>

Init ==
  /\ funcs = <<>>
  /\ vals = <<>>
  /\ parse_order = <<Integer, Float, String>>
  /\ terms = <<>>
  /\ stack = <<>>
  /\ ret = NoRet
  /\ lastCall = NoCall
  /\ lastOp = NoOp
  /\ lastSet = [n \in Names |-> NilIface]
  /\ pops = 0
  /\ two = NoContexts
  /\ found = FALSE

Next ==
  \/ \E name \in Names, f \in AddFuncArgs : AddFunc(name, f)
  \/ \E name \in Names, v \in SetValueArgs : SetValue(name, v)
  \/ \E types \in ParseOrders : SetParseOrder(types)
  \/ \E expression \in Exprs : EvalStart(expression)
  \/ SubEval
  \/ Call
  \/ Return

Spec == Init /\ [][Next]_vars

(***************************************************************************)
(* The same machine with the one name "5", a name that is also an integer  *)
(* literal, bound by the host to a function or to a constant.              *)
(***************************************************************************)
PrioNames == { <<"5">> }
PrioFuncs == { FuncV("makeTwo"), FuncV("abs") }
PrioExprs == { <<"5">>, <<"5", " ", "5">>, <<"7", " ", "5">> }

InitPrio ==
  /\ funcs = <<>>
  /\ vals = <<>>
  /\ parse_order = <<Integer, Float, String>>
  /\ terms = <<>>
  /\ stack = <<>>
  /\ ret = NoRet
  /\ lastCall = NoCall
  /\ lastOp = NoOp
  /\ lastSet = [n \in PrioNames |-> NilIface]
  /\ pops = 0
  /\ two = NoContexts
  /\ found = FALSE

NextPrio ==
  \/ \E name \in PrioNames, f \in PrioFuncs : AddFunc(name, f)
  \/ \E name \in PrioNames, v \in SetValueArgs : SetValue(name, v)
  \/ \E types \in ParseOrders : SetParseOrder(types)
  \/ \E expression \in PrioExprs : EvalStart(expression)
  \/ SubEval
  \/ Call
  \/ Return

SpecPrio == InitPrio /\ [][NextPrio]_vars

(***************************************************************************)
(* The same machine with fewer registrations, and with found telling       *)
(* whether the Eval call of the host found terms in the queue.             *)
(***************************************************************************)
SeqFuncs == { FuncV("add"), FuncV("reeval"), FuncV("panic") }
SeqValues == { IntV(3) }
SeqOrders == { <<Integer, Float, String>>, <<Integer, Float>>, <<>> }

NextSeq ==
  \/ \E name \in Names, f \in SeqFuncs : AddFunc(name, f)
  \/ \E name \in Names, v \in SeqValues : SetValue(name, v)
  \/ \E types \in SeqOrders : SetParseOrder(types)
  \/ \E expression \in Exprs : EvalAfter(expression)
  \/ SubEval
  \/ Call
  \/ Return

SpecSeq == Init /\ [][NextSeq]_vars

(***************************************************************************)
(* Eval as a function of the Context and the expression: the recursion of  *)
(* subEval run to its end with nothing else touching the Context.  A       *)
(* Context is given by the record c of its funcs, vals and parse_order,    *)
(* and of whether the Eval calls on it share the one queue c.terms, as     *)
(* they do with terms a field of Context; rnil is what recover() gives for *)
(* panic(nil) in the build.  A run gives                                   *)
(* the values and the error returned, the panic in flight if any, c.terms  *)
(* as it is left, and the number of terms taken by the subEval calls of    *)
(* the run, those of an Eval called by a callable not counted.             *)
(***************************************************************************)
Run(vs, err, pv, ts, n) == [vs |-> vs, err |-> err, pv |-> pv, terms |-> ts, pops |-> n]

\* What the deferred function of Eval makes of the run of its subEval.
RunRecover(r, expression, rnil) ==
  IF r.pv = NoPanic THEN r
  ELSE LET v == IF r.pv.kind = "nil" THEN rnil ELSE r.pv
       IN  Run(<<>>, IF v # PanicNil THEN EvalErr(expression, v) ELSE NoErr, NoPanic,
               r.terms, r.pops)

RECURSIVE RunSubEval(_, _, _)
RECURSIVE RunLoop(_, _, _, _, _)
RECURSIVE RunCall(_, _, _, _, _)
RECURSIVE RunEval(_, _, _)

\* subEval on the queue ts.
RunSubEval(c, ts, rnil) ==
  IF ts = <<>> THEN Run(<<>>, NoErr, IndexPanic, ts, 0)
  ELSE LET term == ts[1]
           rest == Tail(ts)
           how == Resolution(c.funcs, c.vals, term)
       IN  IF how = "function"
           THEN RunLoop(c, rest, SubEvalFrame(term, c.funcs[term]), rnil, 1)
           ELSE IF how = "constant"
           THEN Run(<< c.vals[term] >>, NoErr, NoPanic, rest, 1)
           ELSE LET p == ParseTerm(c.parse_order, term)
                IN  Run(p.vs, p.err, NoPanic, rest, 1)

\* The argument loop of the frame fr, n terms taken so far, and the call.
RunLoop(c, ts, fr, rnil, n) ==
  IF NeedsArg(fr)
  THEN LET r == RunSubEval(c, ts, rnil)
       IN  IF r.pv # NoPanic \/ r.err # NoErr
           THEN Run(<<>>, r.err, r.pv, r.terms, n + r.pops)
           ELSE RunLoop(c, r.terms, [fr EXCEPT !.args = fr.args \o r.vs], rnil,
                        n + r.pops)
  ELSE RunCall(c, ts, fr, rnil, n)

\* f.f.Call(args) and the values set aside appended.
RunCall(c, ts, fr, rnil, n) ==
  IF ~ArgsAssignable(fr.fn, Given(fr)) THEN Run(<<>>, NoErr, ReflectPanic, ts, n)
  ELSE IF fr.fn = "reeval"
  THEN LET r == RunEval(c, InnerExpr, rnil)
       IN  Run(CallResult(ReevalOut(r.vs, r.err), Remaining(fr)), NoErr, NoPanic,
               IF c.shared THEN r.terms ELSE ts, n)
  ELSE LET b == Body(fr.fn, Given(fr))
       IN  IF b.pv # NoPanic THEN Run(<<>>, NoErr, b.pv, ts, n)
           ELSE Run(CallResult(b.out, Remaining(fr)), NoErr, NoPanic, ts, n)

\* Eval(expression) on the Context c.
RunEval(c, expression, rnil) ==
  RunRecover(RunSubEval(c, Tokenize(expression), rnil), expression, rnil)

\* The Context as it is now.
ThisContext ==
  [funcs |-> funcs, vals |-> vals, parse_order |-> parse_order, shared |-> TRUE]

(***************************************************************************)
(* Two Contexts made by two MakeContext calls.  A map is a place in the    *)
(* heap; a Context holds the places of its funcs and vals maps, and its    *)
(* parse_order and terms.  A call on a Context is one step: its Eval is    *)
(* the run of RunEval.                                                     *)
(***************************************************************************)
\* A MakeContext that hands out the maps made by the first call.
MutMakeContext(heap) ==
  [heap |-> IF heap = <<>> THEN << <<>>, <<>> >> ELSE heap,
   ctx |-> [funcs |-> 1, vals |-> 2, parse_order |-> <<Integer, Float, String>>,
            terms |-> <<>>]]

\* MakeContext on the heap as it is: two new empty maps and a Context that
\* points to them, with the default parse order and no terms.
MakeContext(heap) ==
  [heap |-> heap \o << <<>>, <<>> >>,
   ctx |-> [funcs |-> Len(heap) + 1, vals |-> Len(heap) + 2,
            parse_order |-> <<Integer, Float, String>>, terms |-> <<>>]]

TwoIds == {1, 2}
TwoNames == { <<"f">> }
TwoFuncs == { FuncV("makeTwo"), FuncV("abs"), IntV(7) }
TwoValues == { IntV(3) }
TwoOrders == { <<Integer, Float, String>>, <<String, Integer>> }
TwoExprs == { <<"f">>, <<"f", " ", "5">> }

\* The Context i as the calls on it see it.
ContextOf(t, i) ==
  [funcs |-> t.heap[t.ctxs[i].funcs], vals |-> t.heap[t.ctxs[i].vals],
   parse_order |-> t.ctxs[i].parse_order, shared |-> TRUE]

\* What the host got from the call it made last, on the Context i.
TwoRecord(i, op, name, vs, err) ==
  [ctx |-> i, op |-> op, name |-> name, vs |-> vs, err |-> err]

\* All but two.
oneVars ==
  <<funcs, vals, parse_order, terms, stack, ret, lastCall, lastOp, lastSet, pops, found>>

TwoAddFunc(i, name, f) ==
  LET c == ContextOf(two, i)
      err == AddFuncErr(c.funcs, c.vals, name, f)
  IN  /\ two' = [two EXCEPT
                   !.heap[two.ctxs[i].funcs] =
                      IF err = NoErr THEN Bind(c.funcs, name, [f |-> f.v, num |-> NumIn(f.v)])
                      ELSE c.funcs,
                   !.last = TwoRecord(i, "AddFunc", name, <<>>, err)]
      /\ UNCHANGED oneVars

TwoSetValue(i, name, v) ==
  LET c == ContextOf(two, i)
      err == SetValueErr(c.funcs, name)
  IN  /\ two' = [two EXCEPT
                   !.heap[two.ctxs[i].vals] =
                      IF err = NoErr THEN Bind(c.vals, name, v) ELSE c.vals,
                   !.last = TwoRecord(i, "SetValue", name, <<>>, err)]
      /\ UNCHANGED oneVars

TwoSetParseOrder(i, types) ==
  /\ two' = [two EXCEPT !.ctxs[i].parse_order = types,
                        !.last = TwoRecord(i, "SetParseOrder", <<>>, <<>>, NoErr)]
  /\ UNCHANGED oneVars

TwoEval(i, expression) ==
  /\ \E rnil \in Recovered(PanicNil) :
       LET r == RunEval(ContextOf(two, i), expression, rnil)
       IN  two' = [two EXCEPT !.ctxs[i].terms = r.terms,
                              !.last = TwoRecord(i, "Eval", expression, r.vs, r.err)]
  /\ UNCHANGED oneVars

InitTwo ==
  /\ funcs = <<>>
  /\ vals = <<>>
  /\ parse_order = <<Integer, Float, String>>
  /\ terms = <<>>
  /\ stack = <<>>
  /\ ret = NoRet
  /\ lastCall = NoCall
  /\ lastOp = NoOp
  /\ lastSet = [n \in Names |-> NilIface]
  /\ pops = 0
  /\ found = FALSE
  /\ two = LET a == MakeContext(<<>>)
                b == MakeContext(a.heap)
            IN  [heap |-> b.heap, ctxs |-> << a.ctx, b.ctx >>, last |-> NoOp]

NextTwo ==
  \/ \E i \in TwoIds, name \in TwoNames, f \in TwoFuncs : TwoAddFunc(i, name, f)
  \/ \E i \in TwoIds, name \in TwoNames, v \in TwoValues : TwoSetValue(i, name, v)
  \/ \E i \in TwoIds, types \in TwoOrders : TwoSetParseOrder(i, types)
  \/ \E i \in TwoIds, expression \in TwoExprs : TwoEval(i, expression)

SpecTwo == InitTwo /\ [][NextTwo]_vars

(***************************************************************************)
(* Properties.                                                             *)
(***************************************************************************)
RECURSIVE Flatten(_)
\* The concatenation of the lists of ls, in order.
Flatten(ls) == IF ls = <<>> THEN <<>> ELSE Head(ls) \o Flatten(Tail(ls))

Front(sq) == SubSeq(sq, 1, Len(sq) - 1)

DefaultOrder == parse_order = <<Integer, Float, String>>

\* Name n is registered as the callable id.
IsFunc(n, id) == n \in DOMAIN funcs /\ funcs[n].f = id

\* The last Eval has returned to the host, which has not taken the result yet.
Returned == stack = <<>> /\ ret.done

\* The last call of a callable returned normally.
CallReturned == lastCall.fn # "" /\ lastCall.pv = NoPanic

\* C1: when a term names a function with N inputs and M outputs, its
\* resolution result is the callable's M outputs followed by the pending
\* values beyond the first N, in the order they were produced; the result of
\* the outermost function term is what Eval returns.  A zero-input function
\* alone yields exactly its outputs (none for makeZero), and with unary abs
\* and rev3, Eval("f g 1 2 -3") = [abs(-3), 2, 1].
C1_CarryForward ==
  /\ CallReturned =>
       LET N == NumIn(lastCall.fn)
           M == NumOut(lastCall.fn)
           surplus == Len(lastCall.pending) - N
       IN  /\ Len(lastCall.out) = M
           /\ Len(lastCall.vs) = M + surplus
           /\ \A i \in 1..M : lastCall.vs[i] = lastCall.out[i]
           /\ \A j \in 1..surplus : lastCall.vs[M + j] = lastCall.pending[N + j]
  /\ (Returned /\ ret.err = NoErr /\ CallReturned /\ Tokenize(ret.expr) # <<>>
        /\ Tokenize(ret.expr)[1] \in DOMAIN funcs) =>
       /\ lastCall.fn = funcs[Tokenize(ret.expr)[1]].f
       /\ ret.vs = lastCall.vs
  /\ \A n \in Names :
       (Returned /\ Tokenize(ret.expr) = << n >>) =>
         /\ IsFunc(n, "makeZero") => ret.vs = <<>> /\ ret.err = NoErr
         /\ IsFunc(n, "makeTwo") => ret.vs = << IntV(1), IntV(2) >> /\ ret.err = NoErr
  /\ (Returned /\ DefaultOrder /\ IsFunc(<<"f">>, "abs") /\ IsFunc(<<"g">>, "rev3")
        /\ ret.expr = <<"f", " ", "g", " ", "1", " ", "2", " ", "-", "3">>) =>
       ret.vs = << IntV(3), IntV(2), IntV(1) >> /\ ret.err = NoErr

\* C1 witness: abs has consumed the first of the three outputs of rev3 and
\* the other two follow its own output in what Eval returned.
C1_Witness ==
  /\ Returned /\ DefaultOrder
  /\ IsFunc(<<"f">>, "abs") /\ IsFunc(<<"g">>, "rev3")
  /\ ret.expr = <<"f", " ", "g", " ", "1", " ", "2", " ", "-", "3">>
  /\ lastCall.fn = "abs" /\ Len(lastCall.pending) = 3
  /\ Len(ret.vs) = 3

\* The properties a subEval frame on a function term keeps.
FrameOk(fr) ==
  /\ fr.args = Flatten(fr.results)
  /\ fr.results # <<>> => Len(Flatten(Front(fr.results))) < fr.num
  /\ fr.num = 0 => fr.results = <<>>

\* C2: a callable of input arity N is called with exactly N values, the
\* first N of the pending list; the pending list is the concatenation, in
\* order, of the results of the nested resolutions, and no nested resolution
\* is made once the list holds N values (none at all when N = 0).
C2_ExactArity ==
  /\ \A i \in 1..Len(stack) : stack[i].kind = "subEval" => FrameOk(stack[i])
  /\ lastCall.fn # "" =>
       LET N == NumIn(lastCall.fn)
       IN  /\ Len(lastCall.given) = N
           /\ Len(lastCall.pending) >= N
           /\ \A i \in 1..N : lastCall.given[i] = lastCall.pending[i]
           /\ lastCall.pending = Flatten(lastCall.results)
           /\ lastCall.results # <<>> => Len(Flatten(Front(lastCall.results))) < N
           /\ N = 0 => lastCall.results = <<>>

\* C2 witness: a callable was called after a nested resolution that gave
\* more values than it still needed.
C2_Witness ==
  /\ lastCall.fn # ""
  /\ Len(lastCall.results) >= 1
  /\ Len(lastCall.pending) > NumIn(lastCall.fn)

\* The host's call op is made in this step.
Calls(op) == lastOp = NoOp /\ lastOp'.op = op

\* C3: no name is bound both in the function registry and in the constant
\* table, whatever AddFunc and SetValue calls were made, failed ones included.
C3_Disjoint == DOMAIN funcs \cap DOMAIN vals = {}

\* C3 witness: a call was rejected for a collision while the Context holds
\* both a function and a constant.
C3_Witness ==
  /\ lastOp.op \in {"AddFunc", "SetValue"}
  /\ lastOp.err = CollisionErr(lastOp.name)
  /\ DOMAIN funcs # {} /\ DOMAIN vals # {}

\* C4: AddFunc of a function under a name that is a constant, and SetValue
\* under a name that is a function, return the collision error from the call
\* itself and leave the registry and the constant table as they were.
C4_CollisionRejected ==
  [][ /\ (Calls("AddFunc") /\ lastOp'.arg.kind = "func" /\ lastOp'.name \in DOMAIN vals) =>
           /\ lastOp'.err = CollisionErr(lastOp'.name)
           /\ ~lastOp'.panicked
           /\ funcs' = funcs /\ vals' = vals
      /\ (Calls("SetValue") /\ lastOp'.name \in DOMAIN funcs) =>
           /\ lastOp'.err = CollisionErr(lastOp'.name)
           /\ ~lastOp'.panicked
           /\ funcs' = funcs /\ vals' = vals ]_vars

\* C4 witness: SetValue under the name of a function has just returned the
\* collision error, on a Context that also holds a constant.
C4_Witness ==
  /\ lastOp.op = "SetValue"
  /\ lastOp.name \in DOMAIN funcs
  /\ lastOp.err = CollisionErr(lastOp.name)
  /\ DOMAIN vals # {}

\* C5: a registered function stays bound to the descriptor registered first
\* (callable and input arity) in every later step, and AddFunc of any value
\* under its name returns an error.
C5_WriteOnce ==
  [][ /\ \A n \in DOMAIN funcs : n \in DOMAIN funcs' /\ funcs'[n] = funcs[n]
      /\ (Calls("AddFunc") /\ lastOp'.arg # NilIface /\ lastOp'.name \in DOMAIN funcs) =>
           lastOp'.err # NoErr /\ ~lastOp'.panicked ]_vars

\* C5 witness: AddFunc of another callable under a registered name has just
\* been rejected.
C5_Witness ==
  /\ lastOp.op = "AddFunc"
  /\ lastOp.arg.kind = "func"
  /\ lastOp.err = TwiceErr(lastOp.name)
  /\ lastOp.name \in DOMAIN funcs
  /\ funcs[lastOp.name].f # lastOp.arg.v

\* C6: SetValue under a name that is no function returns nil and binds the
\* value, whether or not the name was a constant already; and Eval of the
\* single term name returns the one value of the last SetValue that
\* returned nil for the name.
C6_Rebinding ==
  /\ [][ (Calls("SetValue") /\ lastOp'.name \notin DOMAIN funcs) =>
           /\ lastOp'.err = NoErr
           /\ lastOp'.name \in DOMAIN vals'
           /\ vals'[lastOp'.name] = lastOp'.arg ]_vars
  /\ [](\A n \in Names :
          (Returned /\ Tokenize(ret.expr) = << n >> /\ lastSet[n] # NilIface) =>
            ret.vs = << lastSet[n] >> /\ ret.err = NoErr)

\* C6 witness: Eval of a single name has returned 4, the value of its last
\* successful SetValue, on a Context where another name is a function.
C6_Witness ==
  /\ Returned
  /\ \E n \in Names :
       /\ Tokenize(ret.expr) = << n >>
       /\ lastSet[n] = IntV(4)
       /\ ret.vs = << IntV(4) >>
  /\ DOMAIN funcs # {}

\* subEval is about to be called and c.terms is empty.
Underflowing ==
  /\ stack # <<>>
  /\ terms = <<>>
  /\ \/ Top(stack).kind = "Eval"
     \/ Top(stack).kind = "subEval" /\ Len(Top(stack).args) < Top(stack).num

\* C7: when the terms run out while a function still lacks arguments, or
\* the expression has no term, Eval returns a non-nil error to the host and
\* no panic leaves it; Eval("f 5") with the binary add fails.
C7_Underflow ==
  /\ [][ Underflowing =>
           /\ stack' = <<>> /\ ret'.done
           /\ ret'.err # NoErr
           /\ ~lastOp'.panicked ]_vars
  /\ [](Returned =>
          /\ Tokenize(ret.expr) = <<>> => ret.err # NoErr
          /\ \A n \in Names :
               (Tokenize(ret.expr) = << n, <<"5">> >> /\ IsFunc(n, "add")) =>
                 ret.err # NoErr)

\* C7 witness: Eval("f 5") or Eval("g 5") with the binary add has returned
\* the error of the recovered index panic.
C7_Witness ==
  /\ Returned
  /\ \E n \in Names : Tokenize(ret.expr) = << n, <<"5">> >> /\ IsFunc(n, "add")
  /\ ret.err.kind = "Failed to evaluate"
  /\ ret.err.cause = IndexPanic.msg

\* C8: Eval returns a result list with a nil error, or a non-nil error with
\* an empty result list, also when callables had returned values before the
\* failure.
C8_NoPartialResults ==
  Returned => (ret.err = NoErr \/ (ret.err # NoErr /\ ret.vs = <<>>))

\* C8 witness: Eval has failed after a callable had returned values.
C8_Witness ==
  /\ Returned
  /\ ret.err # NoErr
  /\ CallReturned
  /\ lastCall.vs # <<>>

\* C9: a panic raised by a callable during Eval comes back from Eval as a
\* non-nil error whose message holds the expression.
C9_FaultIntercepted ==
  (Returned /\ lastCall.fn # "" /\ lastCall.pv # NoPanic) =>
    /\ ret.err # NoErr
    /\ ret.err.text = ret.expr
    /\ ~lastOp.panicked

\* Some value handed to the callable of the frame has another kind than
\* the parameter it is for.
Mismatch(fr) == \E i \in 1..fr.num : fr.args[i].kind # InKinds(fr.fn)[i]

\* C10: when the values handed to a callable do not have the kinds of its
\* parameters, Eval returns a non-nil error and no result and the body of
\* the callable does not run; so for the int-typed add on float literals and
\* the float-typed addf on integer literals.
C10_TypeMismatch ==
  /\ [][ (stack # <<>> /\ Top(stack).kind = "subEval"
            /\ Len(Top(stack).args) >= Top(stack).num /\ Mismatch(Top(stack))) =>
           /\ stack' = <<>> /\ ret'.done
           /\ ret'.err # NoErr /\ ret'.vs = <<>>
           /\ lastCall' = lastCall ]_vars
  /\ [](Returned /\ DefaultOrder =>
          /\ (IsFunc(<<"f">>, "add")
                /\ ret.expr = <<"f", " ", "1", ".", "0", " ", "2", ".", "0">>) =>
               ret.err # NoErr /\ ret.vs = <<>>
          /\ (IsFunc(<<"f">>, "addf")
                /\ ret.expr = <<" ", " ", "f", " ", " ", " ", "1", " ", " ", "2", " ">>) =>
               ret.err # NoErr /\ ret.vs = <<>>)

\* C10 witness: the float-typed addf was given two integer literals and
\* Eval returned the error of the recovered reflect panic.
C10_Witness ==
  /\ Returned /\ DefaultOrder
  /\ IsFunc(<<"f">>, "addf")
  /\ ret.expr = <<" ", " ", "f", " ", " ", " ", "1", " ", " ", "2", " ">>
  /\ ret.err.cause = ReflectPanic.msg
  /\ lastCall = NoCall

\* The first term of the expression of the Eval that returned, when it has
\* one.
FirstTerm == Tokenize(ret.expr)[1]

\* The Eval that returned resolved a first term that names neither a
\* function nor a constant.
LiteralFirst ==
  /\ Returned
  /\ Tokenize(ret.expr) # <<>>
  /\ FirstTerm \notin DOMAIN funcs \cup DOMAIN vals

\* The kind k parses the term, and the Value it gives.
Succeeds(k, term) ==
  \/ k = Integer /\ AtoiOk(term)
  \/ k = Float /\ ParseFloatOk(term)
  \/ k = String

ValueOfKind(k, term) ==
  CASE k = Integer -> IntV(Atoi(term))
    [] k = Float -> FloatV(ParseFloat(term))
    [] k = String -> StringV(term)

\* C11: a term that names neither a function nor a constant gives the Value
\* of the first kind of the parse order that parses it, and the parse error
\* when no kind of the order does (an order without String, or the empty
\* order); under the default order "5" is the Integer 5, "1.5" the Float 1.5
\* and any other term the String of its text; with String first every term
\* is a String.
C11_LiteralCoercion ==
  LiteralFirst =>
    LET hits == { i \in 1..Len(parse_order) : Succeeds(parse_order[i], FirstTerm) }
    IN  /\ hits = {} => ret.vs = <<>> /\ ret.err = ParseErr(FirstTerm)
        /\ hits # {} =>
              LET first == CHOOSE i \in hits : \A j \in hits : i <= j
              IN  /\ ret.err = NoErr
                  /\ ret.vs = << ValueOfKind(parse_order[first], FirstTerm) >>
        /\ DefaultOrder =>
              ret.vs = << CASE FirstTerm = <<"5">> -> IntV(5)
                            [] FirstTerm = <<"1", ".", "5">> -> FloatV(150)
                            [] OTHER -> StringV(FirstTerm) >>
        /\ (parse_order # <<>> /\ parse_order[1] = String) =>
              ret.vs = << StringV(FirstTerm) >>
        /\ (parse_order = <<Integer, Float>> /\ FirstTerm = <<"a">>) =>
              ret.err = ParseErr(<<"a">>)

\* C11 witness: with String before Integer in the order, the term "5" has
\* given the String "5".
C11_Witness ==
  /\ LiteralFirst
  /\ parse_order = <<String, Integer>>
  /\ FirstTerm = <<"5">>
  /\ ret.vs = << StringV(<<"5">>) >>

\* The Eval that returned had a first term.
HadTerm == Returned /\ Tokenize(ret.expr) # <<>>

\* C12: a first term that names a function is resolved as a call of that
\* function, else one that names a constant gives the constant's Value, under
\* every parse order, and only a term that names neither is given to the
\* parse loop; so for the name "5", which is an integer literal too.
C12_ResolutionPriority ==
  HadTerm =>
    /\ FirstTerm \in DOMAIN funcs =>
          /\ CallReturned => lastCall.fn = funcs[FirstTerm].f /\ ret.vs = lastCall.vs
          /\ ret.vs # << IntV(5) >>
          /\ IsFunc(FirstTerm, "makeTwo") => ret.vs = << IntV(1), IntV(2) >>
          /\ IsFunc(FirstTerm, "abs") => ret.err # NoErr
    /\ FirstTerm \in DOMAIN vals =>
          ret.vs = << vals[FirstTerm] >> /\ ret.err = NoErr
    /\ FirstTerm \notin DOMAIN funcs \cup DOMAIN vals =>
          LET p == ParseTerm(parse_order, FirstTerm)
          IN  ret.vs = p.vs /\ ret.err = p.err

\* C12 witness: "5" is bound to a constant that is not 5, the order is the
\* default one, and Eval of "5" has given the constant.
C12_Witness ==
  /\ HadTerm
  /\ DefaultOrder
  /\ FirstTerm = <<"5">>
  /\ FirstTerm \in DOMAIN vals
  /\ ret.vs = << vals[FirstTerm] >>
  /\ ret.vs # << IntV(5) >>

\* The terms of an expression: its longest runs of characters that are not
\* in seps, from left to right.
FieldStarts(e, seps) ==
  { i \in 1..Len(e) : e[i] \notin seps /\ (i = 1 \/ e[i - 1] \in seps) }

FieldEnd(e, seps, i) ==
  CHOOSE j \in i..Len(e) :
    /\ \A k \in i..j : e[k] \notin seps
    /\ j = Len(e) \/ e[j + 1] \in seps

Fields(e, seps) ==
  LET starts == FieldStarts(e, seps)
      nth(n) == CHOOSE i \in starts : Cardinality({ j \in starts : j < i }) = n - 1
  IN  [n \in 1..Cardinality(starts) |-> SubSeq(e, nth(n), FieldEnd(e, seps, nth(n)))]

\* k times the character ch.
Pad(ch, k) == [i \in 1..k |-> ch]

RECURSIVE JoinWith(_, _)
\* The terms of ts with sep between each two.
JoinWith(ts, sep) ==
  IF ts = <<>> THEN <<>>
  ELSE IF Len(ts) = 1 THEN ts[1]
  ELSE ts[1] \o sep \o JoinWith(Tail(ts), sep)

\* The numbers of spaces tried before the first term, between two terms and
\* after the last one.
Leads == {0, 2}
Gaps == {1, 3}
Trails == {0, 1}

\* The expressions with the terms of e and other numbers of spaces.
Respaced(e) ==
  { Pad(Space, l) \o JoinWith(Fields(e, {Space}), Pad(Space, g)) \o Pad(Space, t) :
      l \in Leads, g \in Gaps, t \in Trails }

\* Two errors are the same outcome: both nil, or the same failure with the
\* same cause; the text of a fault's error quotes the expression as it was
\* typed, spaces included.
SameError(e1, e2) ==
  /\ e1.kind = e2.kind
  /\ e1.cause = e2.cause
  /\ e1.kind # "Failed to evaluate" => e1.text = e2.text

\* C13: Eval of an expression and Eval, on the same Context, of the same
\* terms with other numbers of spaces before, between and after them return
\* the same values and the same error outcome.
C13_SpaceInsensitive ==
  Returned =>
    \E rnil \in Recovered(PanicNil) :
      \A e2 \in Respaced(ret.expr) :
        LET r == RunEval(ThisContext, e2, rnil)
        IN  r.vs = ret.vs /\ SameError(r.err, ret.err)

\* C13 witness: the expression of ParsingSpec, with its runs of spaces, has
\* given the sum that "f 1 2" gives.
C13_Witness ==
  /\ Returned
  /\ IsFunc(<<"f">>, "add")
  /\ ret.expr = <<" ", " ", "f", " ", " ", " ", "1", " ", " ", "2", " ">>
  /\ ret.vs = << IntV(3) >>
  /\ <<"f", " ", "1", " ", "2">> \in Respaced(ret.expr)

\* The whitespace characters of the claim.
Whitespace == { Space, "\t", "\n" }

\* C14: every whitespace character (space, tab, newline) separates terms:
\* Eval of an expression returns what Eval, on the same Context, of its
\* whitespace-delimited terms separated by single spaces returns.
C14_WhitespaceSplit ==
  Returned =>
    \E rnil \in Recovered(PanicNil) :
      LET r == RunEval(ThisContext, JoinWith(Fields(ret.expr, Whitespace), <<Space>>), rnil)
      IN  r.vs = ret.vs /\ SameError(r.err, ret.err)

\* The Eval that returned is the run rnil gives.
RunIs(r) == r.vs = ret.vs /\ r.err = ret.err /\ r.terms = terms /\ r.pops = pops

\* C15: when Eval of the first k terms of an expression succeeds, Eval of
\* the whole expression, whatever its further terms are, returns the same
\* values with a nil error and its subEval calls take as many terms as
\* those of the shorter Eval: no further term is taken or called, and the
\* further terms are left in the queue unless a callable's own Eval has
\* replaced the queue.
C15_LeftoverIgnored ==
  Returned =>
    \E rnil \in Recovered(PanicNil) :
      /\ RunIs(RunEval(ThisContext, ret.expr, rnil))
      /\ \A k \in 1..(Len(Tokenize(ret.expr)) - 1) :
            LET r == RunEval(ThisContext, Join(SubSeq(Tokenize(ret.expr), 1, k)), rnil)
            IN  r.err = NoErr =>
                  /\ ret.vs = r.vs
                  /\ ret.err = NoErr
                  /\ pops = r.pops
                  /\ terms \in { r.terms \o SubSeq(Tokenize(ret.expr), k + 1,
                                                    Len(Tokenize(ret.expr))),
                                  r.terms }

\* C15 witness: Eval has returned a value with a nil error from the first
\* term alone, and the next term, left in the queue, names the callable
\* that panics.
C15_Witness ==
  /\ Returned
  /\ ret.err = NoErr
  /\ ret.vs # <<>>
  /\ pops = 1
  /\ Len(Tokenize(ret.expr)) > 1
  /\ terms = Tail(Tokenize(ret.expr))
  /\ IsFunc(terms[1], "panic")

\* The Context as it is now, were the queue of each Eval call its own.
PrivateContext == [ThisContext EXCEPT !.shared = FALSE]

\* C16: an Eval whose callables call Eval on the same Context returns what
\* it returns when the queue of each Eval call is private to the call: no
\* call takes a term of the other's expression, and none has its remaining
\* terms replaced.
C16_PrivateQueue ==
  Returned =>
    \E rnil \in Recovered(PanicNil) :
      LET r == RunEval(PrivateContext, ret.expr, rnil)
      IN  ret.vs = r.vs /\ ret.err = r.err /\ pops = r.pops

\* C17: AddFunc of a value that is not a function (a number, a string, the
\* nil interface value) returns the not-a-function error to the caller,
\* whether or not the name is already bound, and leaves the function
\* registry and the constant table as they were.
C17_NotCallable ==
  [][ (Calls("AddFunc") /\ lastOp'.arg.kind # "func") =>
        /\ ~lastOp'.panicked
        /\ lastOp'.err = NotFuncErr(lastOp'.arg)
        /\ funcs' = funcs /\ vals' = vals ]_vars

\* The call of this step is made on the Context i.
TwoCallOn(i) == two' # two /\ two'.last.ctx = i

\* C18: a call of AddFunc, SetValue, SetParseOrder or Eval on one of two
\* Contexts made by two MakeContext calls leaves the other's function
\* registry, constant table, parse order and terms as they were, and so
\* what Eval returns on it, also when the two hold the same name.
C18_Isolation ==
  [][ \A i \in TwoIds, j \in TwoIds :
        (TwoCallOn(i) /\ j # i) =>
          /\ ContextOf(two', j) = ContextOf(two, j)
          /\ two'.ctxs[j] = two.ctxs[j]
          /\ \A e \in TwoExprs, rnil \in Recovered(PanicNil) :
                RunEval(ContextOf(two', j), e, rnil) = RunEval(ContextOf(two, j), e, rnil) ]_vars

\* C18 witness: the name f is a callable in the first Context and a constant
\* in the second, and Eval of "f" on the second has given the constant.
C18_Witness ==
  /\ two.ctxs # <<>>
  /\ <<"f">> \in DOMAIN ContextOf(two, 1).funcs
  /\ <<"f">> \in DOMAIN ContextOf(two, 2).vals
  /\ two.last = TwoRecord(2, "Eval", <<"f">>, << ContextOf(two, 2).vals[<<"f">>] >>, NoErr)

\* C19: the subEval calls of an Eval over an expression of T terms take at
\* most T terms off the queue, each its first term, and none is put back:
\* the terms taken and the terms left are never more than T.
C19_BoundedPops ==
  lastOp.op = "Eval" =>
    /\ pops <= Len(Tokenize(lastOp.name))
    /\ Returned => pops + Len(terms) <= Len(Tokenize(lastOp.name))

\* C20: while an Eval runs, the function registry, the constant table and
\* the parse order stay as they are, and an Eval that returns, whatever the
\* earlier Eval calls on the Context did and left in the queue, has the
\* outcome of the same Eval on a Context with the same registrations that
\* starts from the expression alone.
C20_SequentialIndependent ==
  /\ [][ (stack # <<>> \/ stack' # <<>>) =>
            funcs' = funcs /\ vals' = vals /\ parse_order' = parse_order ]_vars
  /\ [](Returned =>
          \E rnil \in Recovered(PanicNil) : RunIs(RunEval(ThisContext, ret.expr, rnil)))

\* C20 witness: an Eval called with terms of an earlier Eval still in the
\* queue has returned values with a nil error.
C20_Witness ==
  /\ Returned
  /\ found
  /\ ret.err = NoErr
  /\ ret.vs # <<>>
  /\ pops > 1

\* The next step is a subEval call, and it fails: there is no term to take,
\* or the term is a literal that does not parse.
ParseFailing ==
  /\ terms # <<>>
  /\ Resolution(funcs, vals, terms[1]) = "literal"
  /\ ParseTerm(parse_order, terms[1]).err # NoErr

ResolveFailing ==
  /\ stack # <<>>
  /\ Top(stack).kind = "Eval" \/ (Top(stack).kind = "subEval" /\ NeedsArg(Top(stack)))
  /\ terms = <<>> \/ ParseFailing

\* The next step is f.f.Call.
Calling == stack # <<>> /\ Top(stack).kind = "subEval" /\ ~NeedsArg(Top(stack))

\* The next step is f.f.Call, and it fails: an argument is of the wrong
\* kind, or the body panics.
CallFailing ==
  /\ Calling
  /\ \/ ~ArgsAssignable(Top(stack).fn, Given(Top(stack)))
     \/ /\ Top(stack).fn # "reeval"
        /\ Body(Top(stack).fn, Given(Top(stack))).pv # NoPanic

\* C21: a callable is called only when its frame holds the results of
\* nested resolutions that all returned without error and give it enough
\* arguments; and the step in which a resolution fails (no term, a term that
\* does not parse, an argument of the wrong kind, a panic of the body) ends
\* the Eval call it is in: every frame of that call is gone, no term but the
\* failing one is taken, no other callable is called, and the host's Eval
\* has returned with no value.
C21_FailFast ==
  [][ /\ Calling =>
           /\ FrameOk(Top(stack))
           /\ Len(Top(stack).args) >= Top(stack).num
           /\ \A k \in 1..Len(stack) : stack[k].kind = "Eval" => stack[k].results = <<>>
      /\ (lastCall' # lastCall /\ lastCall'.fn # "" /\ lastCall'.fn # "reeval") =>
           /\ Calling
           /\ lastCall'.fn = Top(stack).fn
           /\ lastCall'.results = Top(stack).results
      /\ (ResolveFailing \/ CallFailing) =>
           LET i == EvalIndex(stack)
           IN  /\ Len(stack') < i
               /\ \A k \in 1..Len(stack') : stack'[k].kind = stack[k].kind
               /\ terms' = IF ResolveFailing /\ ParseFailing THEN Tail(terms) ELSE terms
               /\ \/ lastCall' = lastCall
                  \/ CallFailing /\ lastCall' = CallRecord(Top(stack), lastCall'.pv, <<>>)
                                 /\ lastCall'.pv # NoPanic
                  \/ i > 1 /\ lastCall' = CallRecord(stack[i - 2], NoPanic, << IntV(-1) >>)
               /\ i = 1 =>
                     /\ stack' = <<>>
                     /\ ret'.done /\ ret'.vs = <<>>
                     /\ pops' = IF ResolveFailing /\ ParseFailing THEN pops + 1 ELSE pops ]_vars

\* C21 witness: Eval has returned the parse error of the first argument of
\* a function: the function's callable was not called, and the next term,
\* left in the queue, names a function that was neither taken nor called.
C21_Witness ==
  /\ Returned
  /\ ret.err.kind = "Unable to parse term"
  /\ FirstTerm \in DOMAIN funcs
  /\ lastCall = NoCall
  /\ pops = 2
  /\ terms # <<>>
  /\ terms[1] \in DOMAIN funcs

====
